---------------------------- MODULE Spec2Model ----------------------------
(***************************************************************************)
(* Model of Trakttv.bundle/Contents/Code/sync/sync_base.py: the SyncBase   *)
(* task tree, its run / trigger / trigger_children / trigger_run protocol, *)
(* the BoundedSemaphore fan-out of trigger_run and trigger_spawn, the      *)
(* artifact store (reset / store / retrieve) and update_status.            *)
(*                                                                         *)
(* Python objects are modelled by what the code does with them:            *)
(*   - a dict is a function from the set of its keys;                      *)
(*   - a list is an object on `heap`, named by its address, so that two    *)
(*     dicts holding the same list object hold the same address;           *)
(*   - datetime.utcnow() reads the logical clock `clock`, which advances   *)
(*     with every read;                                                    *)
(*   - a thread started by spawn() is a worker with its own position: it   *)
(*     is "spawned" before its lock.acquire(), "holding" after it,         *)
(*     "release" once its function returned or raised, "done" after its    *)
(*     lock.release();                                                     *)
(*   - a run_ handler is code of a subclass: calling it is one step whose  *)
(*     outcome is a truthy result, a falsy result or an exception;         *)
(*   - run is called without the keyword `single`, which trigger and       *)
(*     trigger_children pop with the default False.                        *)
(***************************************************************************)
EXTENDS Integers, Sequences, FiniteSets, TLC

(***************************************************************************)
(* Bounds of the model.                                                    *)
(***************************************************************************)
\* largest number of run_ handlers a node class defines
MaxHandlers == 2

\* largest number of reset and store calls in a behaviour of SpecStore
MaxOps == 3
\* the most functions of a sequential batch (SpecSeq) and of a threaded
\* batch taken alone (SpecFan)
MaxFuncs == 3
\* the most run_ handlers that store into their node at once (SpecRace)
MaxRacers == 2

(***************************************************************************)
(* The static task tree (SyncBase.children, built once in __init__).       *)
(***************************************************************************)
Root == "sync"

Nodes == {"sync", "movie", "show", "episode"}

\* the declared children of a node class, as self.children.items() lists them
ChildSeq(n) ==
    CASE n = "sync" -> <<"movie", "show">>
      [] n = "show" -> <<"episode">>
      [] OTHER      -> <<>>

Range(s) == {s[i] : i \in 1..Len(s)}

Children(n) == Range(ChildSeq(n))

RECURSIVE Subtree(_)
Subtree(n) == {n} \cup UNION {Subtree(c) : c \in Children(n)}

Descendants(n) == Subtree(n) \ {n}

None == "None"

VARIABLES
    threaded,    \* threaded[n]: the class attribute `threaded` of node n
    auto_run,    \* auto_run[n]: the class attribute `auto_run` of node n
    nh,          \* nh[n]: number of run_ methods dir(self) finds on node n
    current,     \* manager.get_current(): TRUE a task is current, FALSE (None, None)
    runA,        \* kwargs.get('artifacts') of the run in progress
    pc,          \* pc[n]: position of node n's run()
    ret,         \* ret[n]: what node n's run() returned
    batch,       \* batch[n]: the trigger_run call node n is in
    hres,        \* hres[n][i]: outcome of handler i of n in this run
    artifacts,   \* artifacts[n]: self.artifacts, a dict
    heap,        \* heap[a]: the list object at address a
    start_time,  \* start_time[n]: self.start_time
    clock,       \* next value of datetime.utcnow()
    status,      \* status[n]: the manager's SyncStatus record of node n
    fetched,     \* fetched[n]: n's last update_status: the record as get_status
                 \* returned it (rec) and the end_time passed to update (end)
    nupdates,    \* nupdates[n]: calls of status.update made by n's run
    logged,      \* logged[n]: the 'Task ... finished' line n's update_status wrote
    nops,        \* number of reset and store calls made under SpecStore
    before,      \* before[n]: start_time and artifacts of all nodes when n's run began
    calls,       \* calls[n][k]: the functions a sequential trigger_run of n has
                 \* invoked for batch k, by their place in funcs, in invocation order
    hist,        \* hist[n][k]: the store calls made on node n under key k since reset
    out,         \* how the last store or store_episodes call ended
    sth          \* sth[i]: position of worker i inside the store call of its handler

vars == <<threaded, auto_run, nh, current, runA, pc, ret, batch, hres,
          artifacts, heap, start_time, clock, status, fetched, nupdates,
          logged, nops, before, calls, hist, out, sth>>

(***************************************************************************)
(* Values.  A stored artifact is a plain value or a list object.           *)
(***************************************************************************)
Keys == {"shows", "episodes"}

Data == {1, 2}

Val(x) == [list |-> FALSE, v |-> x]

Ref(a) == [list |-> TRUE, v |-> a]

EmptyDict == [k \in {} |-> Val(1)]

\* d[key] = value on a dict
DictSet(d, k, x) == [j \in (DOMAIN d) \cup {k} |-> IF j = k THEN x ELSE d[j]]

\* start_time = None (line 98) and the fields of a record never updated
NoTime == 0

(***************************************************************************)
(* reset                                                                   *)
(***************************************************************************)
\* the order in which reset reaches the nodes of a subtree: the node, then
\* each child's subtree in turn
RECURSIVE Preorder(_)
RECURSIVE PreorderAll(_, _)
Preorder(n) == <<n>> \o PreorderAll(ChildSeq(n), 1)
PreorderAll(cs, i) ==
    IF i > Len(cs) THEN <<>> ELSE Preorder(cs[i]) \o PreorderAll(cs, i + 1)

IndexOf(s, x) == CHOOSE i \in 1..Len(s) : s[i] = x

\* artifacts.copy() if artifacts else {}: a fresh dict holding the same
\* values, so a list object of A is shared, not copied
CopyArtifacts(A) == IF DOMAIN A = {} THEN EmptyDict ELSE A

\* reset as it would be without lines 105-106: the children are not reset
ResetArtifactsOwnOnly(n, A) ==
    [m \in Nodes |-> IF m = n THEN CopyArtifacts(A) ELSE artifacts[m]]

\* self.artifacts after reset(A) on the subtree of n
ResetArtifacts(n, A) ==
    [m \in Nodes |-> IF m \in Subtree(n) THEN CopyArtifacts(A) ELSE artifacts[m]]

\* self.start_time after reset on the subtree of n: one utcnow() per node
ResetStartTime(n) ==
    [m \in Nodes |-> IF m \in Subtree(n)
                     THEN clock + IndexOf(Preorder(n), m) - 1
                     ELSE start_time[m]]

ResetClock(n) == clock + Len(Preorder(n))

(***************************************************************************)
(* store / retrieve                                                        *)
(***************************************************************************)
\* what a caller sees of a stored value: a plain value, or the items of the
\* list object
View(x) ==
    IF x.list THEN [kind |-> "list", v |-> 0, items |-> heap[x.v]]
    ELSE [kind |-> "value", v |-> x.v, items |-> <<>>]

\* retrieve(key, single): artifacts.get(key) or artifacts.get(key, [])
Retrieve(n, k, single) ==
    IF k \in DOMAIN artifacts[n] THEN View(artifacts[n][k])
    ELSE IF single THEN [kind |-> "none", v |-> 0, items |-> <<>>]
    ELSE [kind |-> "list", v |-> 0, items |-> <<>>]

\* the dict of n after store(key, data, single)
StoreDict(n, k, x, single) ==
    IF single THEN DictSet(artifacts[n], k, Val(x))
    ELSE IF k \notin DOMAIN artifacts[n]
         THEN DictSet(artifacts[n], k, Ref(Len(heap) + 1))
         ELSE artifacts[n]

\* a variant of StoreHeap that puts the new value in front of the list
StoreHeapPrepend(n, k, x, single) ==
    IF single THEN heap
    ELSE IF k \notin DOMAIN artifacts[n]
         THEN Append(heap, <<x>>)
         ELSE [heap EXCEPT ![artifacts[n][k].v] = <<x>> \o @]

\* the heap after store(key, data, single): the append goes to the list
\* object the dict holds under key, whoever else holds it
StoreHeap(n, k, x, single) ==
    IF single THEN heap
    ELSE IF k \notin DOMAIN artifacts[n]
         THEN Append(heap, <<x>>)
         ELSE [heap EXCEPT ![artifacts[n][k].v] = Append(@, x)]

\* self.artifacts[key].append(data) raises AttributeError on a plain value
StoreRaises(n, k, single) ==
    /\ ~single
    /\ k \in DOMAIN artifacts[n]
    /\ ~artifacts[n][k].list

(***************************************************************************)
(* The manager's status records and update_status.                         *)
(***************************************************************************)
BoolStr(b) == IF b THEN "True" ELSE "False"

\* the record manager.get_status creates when there is none yet
NewStatus == [success |-> None, timestamp |-> NoTime, elapsed |-> NoTime]

\* manager.get_status(self.task or self.key, section): fetch or create
GetStatus(n) == status[n]

\* status.update(success, start_time, end_time)
StatusUpdate(rec, success, start, end) ==
    [success |-> BoolStr(success), timestamp |-> start, elapsed |-> end - start]

\* the record update_status leaves behind: status.update(success,
\* start_time or self.start_time, end_time) with end_time = utcnow()
UpdatedStatus(n, success) ==
    StatusUpdate(GetStatus(n), success, start_time[n], clock)

\* the log line as it would be were log.info to run before status.update
LogLineBeforeUpdate(n, success) ==
    LET rec == GetStatus(n)
    IN  [success |-> rec.success, timestamp |-> rec.timestamp,
         elapsed |-> rec.elapsed]

\* the fields log.info reads, after status.update has run (lines 221-229)
LogLine(n, success) ==
    LET rec == UpdatedStatus(n, success)
    IN  [success |-> rec.success, timestamp |-> rec.timestamp,
         elapsed |-> rec.elapsed]

\* get_status(None) returns None when the manager has no current task, and
\* status.update on None raises AttributeError
UpdateStatusRaises == ~current

(***************************************************************************)
(* trigger_run: one batch.                                                 *)
(***************************************************************************)
\* core.helpers.all: every entry of the results is truthy
All(res) == \A i \in 1..Len(res) : res[i]

NoBatch ==
    [st |-> "off", N |-> 0, sem |-> 0, acq |-> 0, idx |-> 0,
     w |-> <<>>, res |-> <<>>]

\* a variant of InitialPermits with one permit more than functions
InitialPermitsOneMore(N) == N + 1

\* BoundedSemaphore(len(funcs)): the initial number of permits
InitialPermits(N) == N

\* trigger_run(funcs, single) up to its first blocking point
NewBatch(n, N) ==
    IF N = 0
    THEN [NoBatch EXCEPT !.st = "ret"]
    ELSE IF threaded[n]
    THEN [st |-> "thr", N |-> N, sem |-> InitialPermits(N), acq |-> 0, idx |-> 0,
          w |-> [i \in 1..N |-> "spawned"], res |-> <<>>]
    ELSE [st |-> "seq", N |-> N, sem |-> 0, acq |-> 0, idx |-> 1,
          w |-> <<>>, res |-> <<>>]

\* a variant of ChildFuncs that takes every child
ChildFuncsAll(n) == ChildSeq(n)

\* trigger_children: the children whose auto_run is true
ChildFuncs(n) == SelectSeq(ChildSeq(n), LAMBDA c : auto_run[c])

Kinds == {"h", "c"}

Outcomes == {"true", "false", "raise"}

(***************************************************************************)
(* run                                                                     *)
(***************************************************************************)
\* run() up to the first blocking point of trigger(None): reset, then the
\* batch of the node's own run_ handlers
EnterRun(n) ==
    /\ artifacts' = ResetArtifacts(n, runA')
    /\ start_time' = ResetStartTime(n)
    /\ clock' = ResetClock(n)
    /\ pc' = [pc EXCEPT ![n] = "handlers"]
    /\ ret' = [ret EXCEPT ![n] = None]
    /\ hres' = [hres EXCEPT ![n] = [i \in 1..nh[n] |-> "none"]]
    /\ nupdates' = [nupdates EXCEPT ![n] = 0]
    /\ before' = [before EXCEPT ![n] = [st |-> start_time, art |-> artifacts]]
    /\ batch' = [batch EXCEPT ![n] = [h |-> NewBatch(n, nh[n]), c |-> NoBatch]]

\* update_status(success) followed by `return success` (lines 113-114,
\* 118-119, 121-122)
Finish(n, success) ==
    /\ clock' = clock + 1
    /\ IF UpdateStatusRaises
       THEN /\ pc' = [pc EXCEPT ![n] = "raised"]
            /\ UNCHANGED <<ret, status, fetched, nupdates, logged>>
       ELSE /\ fetched' = [fetched EXCEPT ![n] = [rec |-> GetStatus(n), end |-> clock]]
            /\ status' = [status EXCEPT ![n] = UpdatedStatus(n, success)]
            /\ logged' = [logged EXCEPT ![n] = LogLine(n, success)]
            /\ nupdates' = [nupdates EXCEPT ![n] = @ + 1]
            /\ pc' = [pc EXCEPT ![n] = "done"]
            /\ ret' = [ret EXCEPT ![n] = BoolStr(success)]

\* the manager calls run(artifacts=A) on the root task
Run(A) ==
    /\ pc[Root] = "idle"
    /\ runA' = A
    /\ EnterRun(Root)
    /\ UNCHANGED <<threaded, auto_run, nh, current, heap, status, fetched,
                   logged, nops, calls, hist, out, sth>>

\* a variant of SeqPropagates whose call is wrapped in a try/except, as the
\* one of trigger_spawn is
SeqSwallows(o) == FALSE

\* sequential trigger_run, line 172: nothing catches what func raises, so a
\* raising call ends the comprehension and leaves trigger_run
SeqPropagates(o) == o = "raise"

\* a variant of SeqAfter that stops at the first falsy result
SeqStopsAtFalsy(b, o) ==
    IF b.idx = b.N \/ o # "true" THEN "ret" ELSE "seq"

\* sequential trigger_run, lines 172-177: the comprehension goes on to the
\* next function whatever the last one returned, and the results are
\* returned after the last function of funcs
SeqAfter(b, o) == IF b.idx = b.N THEN "ret" ELSE "seq"

\* sequential trigger_run, line 172: the next run_ handler is called
SeqHandler(n, o) ==
    LET b == batch[n].h
    IN  /\ pc[n] = "handlers"
        /\ b.st = "seq"
        /\ hres' = [hres EXCEPT ![n][b.idx] = o]
        /\ calls' = [calls EXCEPT ![n].h = Append(@, b.idx)]
        /\ IF SeqPropagates(o)
           THEN /\ pc' = [pc EXCEPT ![n] = "raised"]
                /\ batch' = [batch EXCEPT ![n].h.st = "off"]
           ELSE /\ pc' = pc
                /\ batch' = [batch EXCEPT ![n].h =
                       [b EXCEPT !.res = Append(b.res, o = "true"),
                                 !.idx = b.idx + 1,
                                 !.st = SeqAfter(b, o)]]
        /\ UNCHANGED <<threaded, auto_run, nh, current, runA, ret, artifacts,
                       heap, start_time, clock, status, fetched, nupdates,
                       logged, nops, before, hist, out, sth>>

\* sequential trigger_run, line 172: the next child's run is called
SeqCallChild(n) ==
    LET b == batch[n].c
    IN  /\ pc[n] = "children"
        /\ b.st = "seq"
        /\ pc[ChildFuncs(n)[b.idx]] = "idle"
        /\ runA' = runA
        /\ calls' = [calls EXCEPT ![n].c = Append(@, b.idx)]
        /\ EnterRun(ChildFuncs(n)[b.idx])
        /\ UNCHANGED <<threaded, auto_run, nh, current, heap, status, fetched,
                       logged, nops, hist, out, sth>>

\* sequential trigger_run, line 172: the child's run returned or raised
SeqChildDone(n) ==
    LET b == batch[n].c
        c == ChildFuncs(n)[b.idx]
    IN  /\ pc[n] = "children"
        /\ b.st = "seq"
        /\ pc[c] \in {"done", "raised"}
        /\ IF pc[c] = "raised"
           THEN /\ pc' = [pc EXCEPT ![n] = "raised"]
                /\ batch' = [batch EXCEPT ![n].c.st = "off"]
           ELSE /\ pc' = pc
                /\ batch' = [batch EXCEPT ![n].c =
                       [b EXCEPT !.res = Append(b.res, ret[c] = "True"),
                                 !.idx = b.idx + 1,
                                 !.st = SeqAfter(b, IF ret[c] = "True"
                                                     THEN "true"
                                                     ELSE "false")]]
        /\ UNCHANGED <<threaded, auto_run, nh, current, runA, ret, hres,
                       artifacts, heap, start_time, clock, status, fetched,
                       nupdates, logged, nops, before, calls, hist, out, sth>>

(***************************************************************************)
(* Threaded trigger_run (lines 151-169) and trigger_spawn (lines 180-190). *)
(***************************************************************************)
\* lock.acquire() succeeds when a permit is left
CanAcquire(b) == b.sem > 0

\* a variant of WorkerAcquire that goes on without having taken a permit
WorkerAcquireNoPermit(n, k, i) ==
    LET b == batch[n][k]
    IN  /\ i \in 1..Len(b.w)
        /\ b.w[i] = "spawned"
        /\ batch' = [batch EXCEPT ![n][k].w[i] = "holding"]
        /\ UNCHANGED <<threaded, auto_run, nh, current, runA, pc, ret, hres,
                       artifacts, heap, start_time, clock, status, fetched,
                       nupdates, logged, nops, before, calls, hist, out, sth>>

\* trigger_spawn, line 181: a worker takes a permit
WorkerAcquire(n, k, i) ==
    LET b == batch[n][k]
    IN  /\ i \in 1..Len(b.w)
        /\ b.w[i] = "spawned"
        /\ CanAcquire(b)
        /\ batch' = [batch EXCEPT ![n][k] =
               [b EXCEPT !.sem = b.sem - 1, !.w[i] = "holding"]]
        /\ UNCHANGED <<threaded, auto_run, nh, current, runA, pc, ret, hres,
                       artifacts, heap, start_time, clock, status, fetched,
                       nupdates, logged, nops, before, calls, hist, out, sth>>

\* a variant of WorkerAfterCall in which what func raises leaves
\* trigger_spawn before lock.release()
WorkerDiesOnRaise(o) == IF o = "raise" THEN "dead" ELSE "release"

\* trigger_spawn, lines 183-190: the except clause catches what func raised,
\* so lock.release() is the worker's next step after a return and after a
\* raise alike
WorkerAfterCall(o) == "release"

\* the results after a worker's func returned r (line 184) or raised (185)
WorkerResults(res, o) == IF o = "raise" THEN res ELSE Append(res, o = "true")

\* trigger_spawn, lines 183-188: the worker calls a run_ handler
WorkerHandler(n, i, o) ==
    LET b == batch[n].h
    IN  /\ i \in 1..Len(b.w)
        /\ b.w[i] = "holding"
        /\ hres' = [hres EXCEPT ![n][i] = o]
        /\ batch' = [batch EXCEPT ![n].h =
               [b EXCEPT !.res = WorkerResults(b.res, o),
                         !.w[i] = WorkerAfterCall(o)]]
        /\ UNCHANGED <<threaded, auto_run, nh, current, runA, pc, ret,
                       artifacts, heap, start_time, clock, status, fetched,
                       nupdates, logged, nops, before, calls, hist, out, sth>>

\* trigger_spawn, line 184: the worker calls its child's run
WorkerCallChild(n, i) ==
    LET b == batch[n].c
    IN  /\ i \in 1..Len(b.w)
        /\ b.w[i] = "holding"
        /\ pc[ChildFuncs(n)[i]] = "idle"
        /\ runA' = runA
        /\ EnterRun(ChildFuncs(n)[i])
        /\ UNCHANGED <<threaded, auto_run, nh, current, heap, status, fetched,
                       logged, nops, calls, hist, out, sth>>

\* trigger_spawn, lines 184-188: the child's run returned or raised
WorkerChildDone(n, i) ==
    LET b == batch[n].c
        c == ChildFuncs(n)[i]
        o == IF pc[c] = "raised" THEN "raise"
             ELSE IF ret[c] = "True" THEN "true" ELSE "false"
    IN  /\ i \in 1..Len(b.w)
        /\ b.w[i] = "holding"
        /\ pc[c] \in {"done", "raised"}
        /\ batch' = [batch EXCEPT ![n].c =
               [b EXCEPT !.res = WorkerResults(b.res, o),
                         !.w[i] = WorkerAfterCall(o)]]
        /\ UNCHANGED <<threaded, auto_run, nh, current, runA, pc, ret, hres,
                       artifacts, heap, start_time, clock, status, fetched,
                       nupdates, logged, nops, before, calls, hist, out, sth>>

\* trigger_spawn, line 190: lock.release(); a BoundedSemaphore raises
\* ValueError instead of going above its initial value
WorkerRelease(n, k, i) ==
    LET b == batch[n][k]
    IN  /\ i \in 1..Len(b.w)
        /\ b.w[i] = "release"
        /\ batch' = [batch EXCEPT ![n][k] =
               IF b.sem < InitialPermits(b.N)
               THEN [b EXCEPT !.sem = b.sem + 1, !.w[i] = "done"]
               ELSE [b EXCEPT !.w[i] = "valueerror"]]
        /\ UNCHANGED <<threaded, auto_run, nh, current, runA, pc, ret, hres,
                       artifacts, heap, start_time, clock, status, fetched,
                       nupdates, logged, nops, before, calls, hist, out, sth>>

\* trigger_run, lines 166-169: the caller takes one more permit, and
\* returns the results when it has taken len(funcs)
CallerAcquire(n, k) ==
    LET b == batch[n][k]
    IN  /\ pc[n] = (IF k = "h" THEN "handlers" ELSE "children")
        /\ b.st = "thr"
        /\ CanAcquire(b)
        /\ batch' = [batch EXCEPT ![n][k] =
               [b EXCEPT !.sem = b.sem - 1, !.acq = b.acq + 1,
                         !.st = IF b.acq + 1 = b.N THEN "ret" ELSE "thr"]]
        /\ UNCHANGED <<threaded, auto_run, nh, current, runA, pc, ret, hres,
                       artifacts, heap, start_time, clock, status, fetched,
                       nupdates, logged, nops, before, calls, hist, out, sth>>

(***************************************************************************)
(* run, after each trigger returned (lines 112-122).                       *)
(***************************************************************************)
\* lines 112-117: the handlers' results are in
HandlersReturn(n) ==
    LET b == batch[n].h
    IN  /\ pc[n] = "handlers"
        /\ b.st = "ret"
        /\ IF ~All(b.res)
           THEN /\ Finish(n, FALSE)
                /\ batch' = [batch EXCEPT ![n].h.st = "off"]
           ELSE /\ pc' = [pc EXCEPT ![n] = "children"]
                /\ batch' = [batch EXCEPT
                       ![n] = [h |-> [b EXCEPT !.st = "off"],
                               c |-> NewBatch(n, Len(ChildFuncs(n)))]]
                /\ UNCHANGED <<ret, status, fetched, nupdates, logged, clock>>
        /\ UNCHANGED <<threaded, auto_run, nh, current, runA, hres, artifacts,
                       heap, start_time, nops, before, calls, hist, out, sth>>

\* lines 117-122: the children's results are in
ChildrenReturn(n) ==
    LET b == batch[n].c
    IN  /\ pc[n] = "children"
        /\ b.st = "ret"
        /\ Finish(n, All(b.res))
        /\ batch' = [batch EXCEPT ![n].c.st = "off"]
        /\ UNCHANGED <<threaded, auto_run, nh, current, runA, hres, artifacts,
                       heap, start_time, nops, before, calls, hist, out, sth>>

(***************************************************************************)
(* Specification of one run of the tree.                                   *)
(***************************************************************************)
\* the artifact mappings a caller passes: none, or one holding a list object
\* of the caller's (at address 1)
ArtifactInputs == {EmptyDict, [k \in {"shows"} |-> Ref(1)]}

\* the class attributes of the tasks of the tree: a leaf keeps the default
\* threaded = False and has one handler
ConfigInit ==
    /\ threaded \in [Nodes -> BOOLEAN]
    /\ \A n \in Nodes : ChildSeq(n) = <<>> => ~threaded[n]
    /\ auto_run \in [Nodes -> BOOLEAN]
    /\ \A n \in Nodes \ {"movie"} : auto_run[n]
    /\ nh \in [Nodes -> 0..MaxHandlers]
    /\ \A n \in Nodes \ {Root} : nh[n] = 1
    /\ current \in BOOLEAN

\* the tree after __init__ (lines 89-98), no run started, and a caller's
\* list object at address 1
IdleInit ==
    /\ runA = EmptyDict
    /\ pc = [n \in Nodes |-> "idle"]
    /\ ret = [n \in Nodes |-> None]
    /\ batch = [n \in Nodes |-> [h |-> NoBatch, c |-> NoBatch]]
    /\ hres = [n \in Nodes |-> [i \in 1..nh[n] |-> "none"]]
    /\ artifacts = [n \in Nodes |-> EmptyDict]
    /\ heap = << <<1>> >>
    /\ start_time = [n \in Nodes |-> NoTime]
    /\ clock = 1
    /\ status = [n \in Nodes |-> NewStatus]
    /\ fetched = [n \in Nodes |-> [rec |-> NewStatus, end |-> NoTime]]
    /\ nupdates = [n \in Nodes |-> 0]
    /\ logged = [n \in Nodes |-> NewStatus]
    /\ nops = 0
    /\ before = [n \in Nodes |-> [st |-> start_time, art |-> artifacts]]
    /\ calls = [n \in Nodes |-> [h |-> <<>>, c |-> <<>>]]
    /\ hist = [n \in Nodes |-> [k \in Keys |-> [vals |-> <<>>, only |-> TRUE]]]
    /\ out = "none"
    /\ sth = [i \in 1..MaxRacers |-> [pc |-> "idle", lst |-> 0]]

Init == ConfigInit /\ IdleInit

Next ==
    \/ \E A \in ArtifactInputs : Run(A)
    \/ \E n \in Nodes, o \in Outcomes : SeqHandler(n, o)
    \/ \E n \in Nodes : SeqCallChild(n)
    \/ \E n \in Nodes : SeqChildDone(n)
    \/ \E n \in Nodes, k \in Kinds :
           \E i \in 1..Len(batch[n][k].w) : WorkerAcquire(n, k, i)
    \/ \E n \in Nodes, o \in Outcomes :
           \E i \in 1..Len(batch[n].h.w) : WorkerHandler(n, i, o)
    \/ \E n \in Nodes : \E i \in 1..Len(batch[n].c.w) : WorkerCallChild(n, i)
    \/ \E n \in Nodes : \E i \in 1..Len(batch[n].c.w) : WorkerChildDone(n, i)
    \/ \E n \in Nodes, k \in Kinds :
           \E i \in 1..Len(batch[n][k].w) : WorkerRelease(n, k, i)
    \/ \E n \in Nodes, k \in Kinds : CallerAcquire(n, k)
    \/ \E n \in Nodes : HandlersReturn(n)
    \/ \E n \in Nodes : ChildrenReturn(n)

Spec == Init /\ [][Next]_vars

(***************************************************************************)
(* Properties of the run protocol, checked under Spec.                     *)
(***************************************************************************)
\* a threaded trigger_run of node n, batch k, is returning to its caller
Returning(n, k) == batch[n][k].st = "ret" /\ Len(batch[n][k].w) > 0

\* handler i of n failed: it returned a falsy result, or it raised
HandlerFailed(n, i) == hres[n][i] \in {"false", "raise"}

\* the run of n has come to an end
RunEnded(n) == pc[n] \in {"done", "raised"}

\* C1: when a threaded trigger_run returns to its caller, every worker it
\* spawned for the batch has finished: none is still before its acquire,
\* and none is between its acquire and its release.
C1_BarrierWaitsForWorkers ==
    \A n \in Nodes, k \in Kinds :
        Returning(n, k) =>
            \A i \in 1..Len(batch[n][k].w) : batch[n][k].w[i] = "done"

\* C2: run is fail-closed: a run that returned True (and recorded success)
\* invoked every own handler and every auto_run child's run, and each
\* completed with a truthy result; with a handler or child that returned
\* false or gave no result, run returns False and records failure.
C2_RunFailClosed ==
    \A n \in Nodes :
        (pc[n] = "done" /\ ret[n] = "True") =>
            /\ status[n].success = "True"
            /\ \A i \in 1..nh[n] : hres[n][i] = "true"
            /\ \A c \in Range(ChildFuncs(n)) : pc[c] = "done" /\ ret[c] = "True"

\* C3: no exception escapes run: the run of a node never ends by raising
\* (a raising sequential handler makes run return False instead).
C3_NoExceptionEscapesRun ==
    \A n \in Nodes :
        /\ pc[n] # "raised"
        /\ (pc[n] = "done" /\ \E i \in 1..nh[n] : hres[n][i] = "raise")
               => ret[n] = "False"

\* C4: a run that has come to an end has made exactly one status.update on
\* the node's record, and the success written is the run's verdict.
C4_OneStatusUpdatePerRun ==
    \A n \in Nodes :
        RunEnded(n) => nupdates[n] = 1 /\ status[n].success = ret[n]

\* C5: in a run of a node whose own handler failed, the run of no child of
\* the node is invoked.
C5_FailedHandlerNoChildRun ==
    \A n \in Nodes :
        (\E i \in 1..nh[n] : HandlerFailed(n, i)) =>
            \A c \in Children(n) : pc[c] = "idle"

\* C7: a threaded trigger_run over N handlers of which R raise returns
\* exactly N - R results.
C7_ResultsLengthNMinusR ==
    \A n \in Nodes :
        Returning(n, "h") =>
            Len(batch[n].h.res) =
                batch[n].h.N - Cardinality({i \in 1..nh[n] : hres[n][i] = "raise"})

\* C8: at most one worker of a batch is between its lock.acquire() and its
\* lock.release().
C8_WorkersMutuallyExclusive ==
    \A n \in Nodes, k \in Kinds :
        Cardinality({i \in 1..Len(batch[n][k].w) :
                        batch[n][k].w[i] \in {"holding", "release"}}) <= 1

\* a run of n ended at its own handlers: one returned a falsy result, or,
\* the node being sequential, one raised
OwnHandlerFailedRun(n) ==
    /\ RunEnded(n)
    /\ \E i \in 1..nh[n] :
           \/ hres[n][i] = "false"
           \/ ~threaded[n] /\ hres[n][i] = "raise"

C9_LogsPreUpdateFields ==
    \A n \in Nodes :
        nupdates[n] > 0 =>
            /\ logged[n] = fetched[n].rec
            /\ status[n] = [success |-> ret[n], timestamp |-> start_time[n],
                            elapsed |-> fetched[n].end - start_time[n]]

\* C9 (amended): update_status fetches the record, applies the update, and
\* then logs: the log line carries the fields just written (this run's
\* success, start and elapsed), and after the call the record holds them.
C9_LogsUpdatedFields ==
    \A n \in Nodes :
        nupdates[n] > 0 =>
            /\ logged[n] = status[n]
            /\ logged[n] # fetched[n].rec
            /\ status[n] = [success |-> ret[n], timestamp |-> start_time[n],
                            elapsed |-> fetched[n].end - start_time[n]]

\* C9 witness: a child's run has updated its status and logged a failure
C9_Witness ==
    /\ nupdates["show"] = 1
    /\ logged["show"].success = "False"
    /\ fetched["show"].rec = NewStatus

\* the parent of a node other than the root
ParentOf(c) == CHOOSE n \in Nodes : c \in Children(n)

\* C16: a child whose auto_run is false is not in the batch of its parent's
\* trigger_children and is never run by its parent's run (no run entered,
\* no status update), yet the reset of its parent's run resets it; every
\* child whose auto_run is true is exactly once in the batch.
C16_AutoRunFilter ==
    \A c \in Nodes \ {Root} :
        LET n == ParentOf(c)
            places == {i \in 1..Len(ChildFuncs(n)) : ChildFuncs(n)[i] = c}
        IN  /\ Cardinality(places) = IF auto_run[c] THEN 1 ELSE 0
            /\ pc[n] = "children" =>
                   batch[n].c.N = Cardinality({d \in Children(n) : auto_run[d]})
            /\ ~auto_run[c] =>
                   /\ pc[c] = "idle"
                   /\ nupdates[c] = 0
                   /\ status[c] = NewStatus
                   /\ pc[n] # "idle" =>
                          /\ start_time[c] # NoTime
                          /\ artifacts[c] = CopyArtifacts(runA)

\* C16 witness: the root's run went through its children batch and ended,
\* `movie` having auto_run false: it was reset and not run, `show` was run
C16_Witness ==
    /\ ~auto_run["movie"]
    /\ pc[Root] = "done"
    /\ runA # EmptyDict
    /\ batch[Root].c.N = 1
    /\ pc["movie"] = "idle"
    /\ artifacts["movie"] = CopyArtifacts(runA)
    /\ start_time["movie"] # NoTime
    /\ nupdates["show"] = 1

(***************************************************************************)
(* Specification of the artifact store: reset and store calls made on the  *)
(* nodes of the tree by a single thread.                                   *)
(***************************************************************************)
\* the mappings a caller passes to reset: none, one holding the caller's
\* list object, one holding a plain value
StoreInputs ==
    ArtifactInputs \cup {[k \in {"shows"} |-> Val(1)]}

\* no store call made yet on any node
NoHist == [n \in Nodes |-> [k \in Keys |-> [vals |-> <<>>, only |-> TRUE]]]

\* the record of the calls made on node n under key k, after one more call
\* store(k, x, single): vals are the values of the multi-valued calls, in
\* call order, and only tells that every call was multi-valued and returned
StoreHist(n, k, x, single) ==
    IF single \/ StoreRaises(n, k, single)
    THEN [hist[n][k] EXCEPT !.only = FALSE]
    ELSE [hist[n][k] EXCEPT !.vals = Append(@, x)]

\* reset(A) on the root (lines 100-106)
StoreReset(A) ==
    /\ nops < MaxOps
    /\ nops' = nops + 1
    /\ runA' = A
    /\ artifacts' = ResetArtifacts(Root, A)
    /\ start_time' = ResetStartTime(Root)
    /\ clock' = ResetClock(Root)
    /\ hist' = NoHist
    /\ out' = "reset"
    /\ UNCHANGED <<threaded, auto_run, nh, current, pc, ret, batch, hres,
                   heap, status, fetched, nupdates, logged, before, calls,
                   sth>>

\* store(key, data, single) on node n (lines 255-263)
Store(n, k, x, single) ==
    /\ nops < MaxOps
    /\ nops' = nops + 1
    /\ IF StoreRaises(n, k, single)
       THEN UNCHANGED <<artifacts, heap>>
       ELSE /\ artifacts' = [artifacts EXCEPT ![n] = StoreDict(n, k, x, single)]
            /\ heap' = StoreHeap(n, k, x, single)
    /\ hist' = [hist EXCEPT ![n][k] = StoreHist(n, k, x, single)]
    /\ out' = IF StoreRaises(n, k, single) THEN "raised" ELSE "stored"
    /\ UNCHANGED <<threaded, auto_run, nh, current, runA, pc, ret, batch,
                   hres, start_time, clock, status, fetched, nupdates,
                   logged, before, calls, sth>>

InitStore ==
    /\ threaded = [n \in Nodes |-> FALSE]
    /\ auto_run = [n \in Nodes |-> TRUE]
    /\ nh = [n \in Nodes |-> 1]
    /\ current = TRUE
    /\ IdleInit

NextStore ==
    \/ \E A \in StoreInputs : StoreReset(A)
    \/ \E n \in Nodes, k \in Keys, x \in Data, single \in BOOLEAN :
           Store(n, k, x, single)

SpecStore == InitStore /\ [][NextStore]_vars

\* what the caller sees of the mapping A it passed to reset
CallerView == [k \in DOMAIN runA |-> View(runA[k])]

\* what every node retrieves for every key
RetrieveAll == [m \in Nodes |-> [k \in Keys |-> Retrieve(m, k, FALSE)]]

\* retrieve(k) on node n returns the sequence vals
RetrievesList(n, k, vals) ==
    Retrieve(n, k, FALSE) = [kind |-> "list", v |-> 0, items |-> vals]

\* C12 as claimed: when only multi-valued store calls were made on a node
\* under key k since reset, retrieve(k) returns exactly the values of these
\* calls, in call order; for a key never stored and not inherited it
\* returns the empty sequence.
C12_RetrieveStoredOrder ==
    \A n \in Nodes, k \in Keys :
        hist[n][k].only =>
            /\ hist[n][k].vals # <<>> => RetrievesList(n, k, hist[n][k].vals)
            /\ (hist[n][k].vals = <<>> /\ k \notin DOMAIN runA) =>
                   RetrievesList(n, k, <<>>)

\* C12: when only multi-valued store calls were made on a node since reset
\* under a key k that the mapping passed to reset does not hold, retrieve(k)
\* returns exactly the values of these calls, in call order, and the empty
\* sequence when there was no such call.
C12_RetrieveStoredOrderOwnKeys ==
    \A n \in Nodes, k \in Keys :
        (hist[n][k].only /\ k \notin DOMAIN runA) =>
            RetrievesList(n, k, hist[n][k].vals)

\* C12 witness: after reset(A), store('episodes', 2) and store('episodes', 1)
\* on one node, which retrieves [2, 1]; the key 'shows' of A was never
\* stored and another node retrieves nothing under 'episodes'
C12_Witness ==
    /\ "shows" \in DOMAIN runA
    /\ hist["movie"]["episodes"] = [vals |-> <<2, 1>>, only |-> TRUE]
    /\ RetrievesList("movie", "episodes", <<2, 1>>)
    /\ RetrievesList("show", "episodes", <<>>)

\* C10: a store on one node changes neither the mapping A passed to reset
\* nor what any other node retrieves, for any key.
C10_StoreIsolated ==
    [][\A n \in Nodes, k \in Keys, x \in Data, single \in BOOLEAN :
          Store(n, k, x, single) =>
              /\ CallerView' = CallerView
              /\ \A m \in Nodes \ {n} : RetrieveAll'[m] = RetrieveAll[m]]_vars

(***************************************************************************)
(* Specification of the sequential protocol: a run of the tree in which no *)
(* node is threaded, the root class defining up to MaxFuncs run_ handlers. *)
(***************************************************************************)
InitSeq ==
    /\ threaded = [n \in Nodes |-> FALSE]
    /\ auto_run \in [Nodes -> BOOLEAN]
    /\ \A n \in Nodes \ {"movie"} : auto_run[n]
    /\ nh \in [Nodes -> 0..MaxFuncs]
    /\ \A n \in Nodes \ {Root} : nh[n] = 1
    /\ current \in BOOLEAN
    /\ IdleInit

NextSeq ==
    \/ \E A \in ArtifactInputs : Run(A)
    \/ \E n \in Nodes, o \in Outcomes : SeqHandler(n, o)
    \/ \E n \in Nodes : SeqCallChild(n)
    \/ \E n \in Nodes : SeqChildDone(n)
    \/ \E n \in Nodes : HandlersReturn(n)
    \/ \E n \in Nodes : ChildrenReturn(n)

SpecSeq == InitSeq /\ [][NextSeq]_vars

\* the functions 1..m of a batch, in declared order
Declared(m) == [i \in 1..m |-> i]

\* C11: a sequential trigger_run whose functions all return has invoked, by
\* the time it returns, every function exactly once and in declared order,
\* whatever the earlier ones returned, and its i-th result is the result of
\* the i-th function.
C11_SequentialOrder ==
    \A n \in Nodes :
        ~threaded[n] =>
            /\ \E m \in 0..nh[n] : calls[n].h = Declared(m)
            /\ \E m \in 0..Len(ChildFuncs(n)) : calls[n].c = Declared(m)
            /\ (pc[n] = "handlers" /\ batch[n].h.st = "ret") =>
                   /\ calls[n].h = Declared(nh[n])
                   /\ Len(batch[n].h.res) = nh[n]
                   /\ \A i \in 1..nh[n] :
                          batch[n].h.res[i] = (hres[n][i] = "true")
            /\ (pc[n] = "children" /\ batch[n].c.st = "ret") =>
                   /\ calls[n].c = Declared(Len(ChildFuncs(n)))
                   /\ Len(batch[n].c.res) = Len(ChildFuncs(n))
                   /\ \A i \in 1..Len(ChildFuncs(n)) :
                          batch[n].c.res[i] = (ret[ChildFuncs(n)[i]] = "True")

\* C11 witness: three handlers returned [true, false, true] and the batch
\* is returning these results
C11_Witness ==
    /\ pc[Root] = "handlers"
    /\ batch[Root].h.st = "ret"
    /\ calls[Root].h = <<1, 2, 3>>
    /\ batch[Root].h.res = <<TRUE, FALSE, TRUE>>
    /\ ~All(batch[Root].h.res)

(***************************************************************************)
(* Specification of store_episodes: reset, store calls on the `episode`    *)
(* task and store_episodes calls on any node, made by a single thread.     *)
(***************************************************************************)
\* episodes=None, the default of store_episodes
NoEpisodes == [list |-> FALSE, v |-> 0]

\* the explicit episodes a caller passes, and no episodes
EpisodeInputs == {NoEpisodes, Val(2)}

\* core.helpers.merge({'episodes': episodes}, show): the merged record, as
\* the number that names the show, the episodes value and whether that
\* value is a list object (then by its address)
Merge(episodes, show) ==
    (IF episodes.list THEN 200 ELSE 100) + 10 * episodes.v + show

\* self.child(name): self.children.get(name), None when n has no such child
Child(n, name) == IF name \in Children(n) THEN name ELSE None

\* `artifact or key` (line 267)
LookupName(k, artifact) == IF artifact = None THEN k ELSE artifact

\* line 267 raises: None, returned by child('episode'), has no artifacts
ChildLookupRaises(n, episodes) ==
    episodes = NoEpisodes /\ Child(n, "episode") = None

\* episodes after lines 266-267, on a node that has an `episode` child:
\* dict.get returns None for an absent key
EpisodesOf(n, k, artifact, episodes) ==
    IF episodes # NoEpisodes THEN episodes
    ELSE IF LookupName(k, artifact) \in DOMAIN artifacts[Child(n, "episode")]
         THEN artifacts[Child(n, "episode")][LookupName(k, artifact)]
         ELSE NoEpisodes

\* store_episodes(key, show, episodes, artifact) on node n (lines 265-272)
StoreEpisodes(n, k, artifact, episodes, show) ==
    /\ nops < MaxOps
    /\ nops' = nops + 1
    /\ IF ChildLookupRaises(n, episodes)
       THEN /\ out' = "raised"
            /\ UNCHANGED <<artifacts, heap, hist>>
       ELSE IF EpisodesOf(n, k, artifact, episodes) = NoEpisodes
       THEN /\ out' = "noop"
            /\ UNCHANGED <<artifacts, heap, hist>>
       ELSE LET x == Merge(EpisodesOf(n, k, artifact, episodes), show)
            IN  /\ out' = IF StoreRaises(n, k, FALSE) THEN "raised" ELSE "stored"
                /\ hist' = [hist EXCEPT ![n][k] = StoreHist(n, k, x, FALSE)]
                /\ IF StoreRaises(n, k, FALSE)
                   THEN UNCHANGED <<artifacts, heap>>
                   ELSE /\ artifacts' = [artifacts EXCEPT
                               ![n] = StoreDict(n, k, x, FALSE)]
                        /\ heap' = StoreHeap(n, k, x, FALSE)
    /\ UNCHANGED <<threaded, auto_run, nh, current, runA, pc, ret, batch,
                   hres, start_time, clock, status, fetched, nupdates,
                   logged, before, calls, sth>>

NextEpisodes ==
    \/ \E A \in StoreInputs : StoreReset(A)
    \/ \E k \in Keys, x \in Data, single \in BOOLEAN :
           Store("episode", k, x, single)
    \/ \E n \in Nodes, k \in Keys, artifact \in {None, "episodes"},
              episodes \in EpisodeInputs, show \in Data :
           StoreEpisodes(n, k, artifact, episodes, show)

SpecEpisodes == InitStore /\ [][NextEpisodes]_vars

\* store_episodes on n finds no episodes to store: n has no child named
\* `episode`, or that child holds nothing under `artifact or key`
NoChildArtifact(n, k, artifact) ==
    \/ Child(n, "episode") = None
    \/ LookupName(k, artifact) \notin DOMAIN artifacts["episode"]

\* C13: store_episodes without explicit episodes, when no child artifact
\* matches, returns without error and leaves the artifacts as they were.
C13_StoreEpisodesNoOp ==
    [][\A n \in Nodes, k \in Keys, artifact \in {None, "episodes"},
          show \in Data :
          (StoreEpisodes(n, k, artifact, NoEpisodes, show)
              /\ NoChildArtifact(n, k, artifact)) =>
                  /\ out' = "noop"
                  /\ artifacts' = artifacts
                  /\ heap' = heap]_vars

(***************************************************************************)
(* Properties of the sequential protocol, checked under SpecSeq.           *)
(***************************************************************************)
\* C14: in a sequential batch, when the i-th function raises, trigger_run
\* does not catch the error: the caller's run ends with it, no function
\* after the i-th is invoked and no results are returned.
C14_SequentialRaisePropagates ==
    \A n \in Nodes :
        ~threaded[n] =>
            /\ \A i \in 1..nh[n] :
                   hres[n][i] = "raise" =>
                       /\ pc[n] = "raised"
                       /\ ret[n] = None
                       /\ batch[n].h.st = "off"
                       /\ calls[n].h = Declared(i)
                       /\ \A j \in (i + 1)..nh[n] : hres[n][j] = "none"
            /\ \A i \in 1..Len(ChildFuncs(n)) :
                   pc[ChildFuncs(n)[i]] = "raised" =>
                       /\ pc[n] \in {"children", "raised"}
                       /\ pc[n] = "children" => batch[n].c.st = "seq"
                       /\ pc[n] = "raised" => batch[n].c.st = "off"
                       /\ ret[n] = None
                       /\ calls[n].c = Declared(i)
                       /\ \A j \in (i + 1)..Len(ChildFuncs(n)) :
                              pc[ChildFuncs(n)[j]] = "idle"

\* C14 witness: the second of three handlers raised
C14_Witness ==
    /\ hres[Root] = <<"true", "raise", "none">>
    /\ pc[Root] = "raised"

(***************************************************************************)
(* Specification of the threaded fan-out taken alone: a run of a threaded  *)
(* root whose class defines up to MaxFuncs run_ handlers, and whose only   *)
(* child that may run is the leaf `movie`.                                 *)
(***************************************************************************)
InitFan ==
    /\ threaded = [n \in Nodes |-> n = Root]
    /\ auto_run \in [Nodes -> BOOLEAN]
    /\ auto_run[Root] /\ ~auto_run["show"] /\ auto_run["episode"]
    /\ nh \in [Nodes -> 0..MaxFuncs]
    /\ \A n \in Nodes \ {Root} : nh[n] = 1
    /\ current = TRUE
    /\ IdleInit

\* the steps of the thread that called run on the root
CallerStep ==
    \/ \E k \in Kinds : CallerAcquire(Root, k)
    \/ HandlersReturn(Root)
    \/ ChildrenReturn(Root)

\* the steps of the thread spawned for function i of batch k of the root:
\* trigger_spawn and, inside it, the function (a handler, or a child's run)
WorkerStep(k, i) ==
    \/ WorkerAcquire(Root, k, i)
    \/ WorkerRelease(Root, k, i)
    \/ k = "h" /\ \E o \in Outcomes : WorkerHandler(Root, i, o)
    \/ k = "c" /\ WorkerCallChild(Root, i)
    \/ k = "c" /\ WorkerChildDone(Root, i)
    \/ /\ k = "c"
       /\ i \in 1..Len(ChildFuncs(Root))
       /\ \/ \E o \in Outcomes : SeqHandler(ChildFuncs(Root)[i], o)
          \/ HandlersReturn(ChildFuncs(Root)[i])
          \/ ChildrenReturn(ChildFuncs(Root)[i])

NextFan ==
    \/ \E A \in ArtifactInputs : Run(A)
    \/ CallerStep
    \/ \E k \in Kinds, i \in 1..MaxFuncs : WorkerStep(k, i)

SpecFan == InitFan /\ [][NextFan]_vars

\* the scheduler runs every thread that can take a step: the caller and
\* each spawned worker; a function that is called terminates
FairFan ==
    /\ SpecFan
    /\ WF_vars(CallerStep)
    /\ \A k \in Kinds, i \in 1..MaxFuncs : WF_vars(WorkerStep(k, i))

\* C15: under fair scheduling, the caller of a threaded trigger_run whose
\* functions all terminate eventually returns from it, whether the
\* functions returned or raised.
C15_CallerEventuallyReturns ==
    \A k \in Kinds :
        (batch[Root][k].st = "thr") ~> (batch[Root][k].st = "ret")

\* C15 witness: the threaded batch of three handlers returns to its caller
\* after a handler raised and its worker released its permit
C15_Witness ==
    /\ Returning(Root, "h")
    /\ batch[Root].h.N = 3
    /\ \E i \in 1..3 : hres[Root][i] = "raise" /\ batch[Root].h.w[i] = "done"

(***************************************************************************)
(* Specification of concurrent stores: a run of a threaded root whose      *)
(* run_ handlers each call self.store(RaceKey, i) (multi-valued, i the     *)
(* handler's own value) and return True.  The workers are threads, so the  *)
(* statements of store (lines 259-263) of one worker interleave with those *)
(* of another.                                                             *)
(***************************************************************************)
RaceKey == "shows"

InitRace ==
    /\ threaded = [n \in Nodes |-> n = Root]
    /\ auto_run = [n \in Nodes |-> n \in {Root, "episode"}]
    /\ nh \in [Nodes -> 1..MaxRacers]
    /\ \A n \in Nodes \ {Root} : nh[n] = 1
    /\ current = TRUE
    /\ IdleInit

\* a variant of CreateList that keeps the list the dict already holds,
\* as self.artifacts.setdefault(key, []) would
CreateListIfAbsent(d, k, a) ==
    IF k \in DOMAIN d THEN d ELSE DictSet(d, k, Ref(a))

\* line 260, self.artifacts[key] = []: the dict holds the new list object,
\* whatever it held under key before
CreateList(d, k, a) == DictSet(d, k, Ref(a))

\* the steps of the handler of worker i that change nothing but sth, the
\* artifacts of the root and the heap
RaceFrame ==
    UNCHANGED <<threaded, auto_run, nh, current, runA, pc, ret, batch, hres,
                start_time, clock, status, fetched, nupdates, logged, nops,
                before, calls, hist, out>>

\* the handler calls store; line 259, `if key not in self.artifacts`
RaceCheck(i) ==
    /\ i \in 1..Len(batch[Root].h.w)
    /\ batch[Root].h.w[i] = "holding"
    /\ sth[i].pc = "idle"
    /\ sth' = [sth EXCEPT ![i].pc = IF RaceKey \in DOMAIN artifacts[Root]
                                    THEN "lookup" ELSE "create"]
    /\ UNCHANGED <<artifacts, heap>>
    /\ RaceFrame

\* line 260, self.artifacts[key] = []
RaceCreate(i) ==
    /\ sth[i].pc = "create"
    /\ heap' = Append(heap, <<>>)
    /\ artifacts' = [artifacts EXCEPT
           ![Root] = CreateList(artifacts[Root], RaceKey, Len(heap) + 1)]
    /\ sth' = [sth EXCEPT ![i].pc = "lookup"]
    /\ RaceFrame

\* line 263, self.artifacts[key]: the list object to append to
RaceLookup(i) ==
    /\ sth[i].pc = "lookup"
    /\ sth' = [sth EXCEPT ![i] = [pc |-> "append",
                                  lst |-> artifacts[Root][RaceKey].v]]
    /\ UNCHANGED <<artifacts, heap>>
    /\ RaceFrame

\* line 263, .append(data), on the list object looked up
RaceAppend(i) ==
    /\ sth[i].pc = "append"
    /\ heap' = [heap EXCEPT ![sth[i].lst] = Append(@, i)]
    /\ sth' = [sth EXCEPT ![i].pc = "stored"]
    /\ UNCHANGED artifacts
    /\ RaceFrame

\* store returned, and the handler returns True to trigger_spawn (line 184)
RaceReturn(i) ==
    LET b == batch[Root].h
    IN  /\ sth[i].pc = "stored"
        /\ sth' = [sth EXCEPT ![i].pc = "returned"]
        /\ hres' = [hres EXCEPT ![Root][i] = "true"]
        /\ batch' = [batch EXCEPT ![Root].h =
               [b EXCEPT !.res = WorkerResults(b.res, "true"),
                         !.w[i] = WorkerAfterCall("true")]]
        /\ UNCHANGED <<threaded, auto_run, nh, current, runA, pc, ret,
                       artifacts, heap, start_time, clock, status, fetched,
                       nupdates, logged, nops, before, calls, hist, out>>

NextRace ==
    \/ \E A \in ArtifactInputs : Run(A)
    \/ \E i \in 1..MaxRacers : WorkerAcquire(Root, "h", i)
    \/ \E i \in 1..MaxRacers : RaceCheck(i)
    \/ \E i \in 1..MaxRacers : RaceCreate(i)
    \/ \E i \in 1..MaxRacers : RaceLookup(i)
    \/ \E i \in 1..MaxRacers : RaceAppend(i)
    \/ \E i \in 1..MaxRacers : RaceReturn(i)
    \/ \E i \in 1..MaxRacers : WorkerRelease(Root, "h", i)
    \/ \E k \in Kinds : CallerAcquire(Root, k)
    \/ HandlersReturn(Root)
    \/ ChildrenReturn(Root)

SpecRace == InitRace /\ [][NextRace]_vars

\* worker i is inside store: past the test of line 259, its append not done
InStore(i) == sth[i].pc \in {"create", "lookup", "append"}

\* worker i has stored its value
HasStored(i) == sth[i].pc \in {"stored", "returned"}

\* C17: the semaphore does not keep two workers of a batch from being
\* inside store on their node's artifacts together, and values are lost
\* that way: under a key that was not inherited the dict holds the list
\* created last, a value a worker stored is in the list that worker looked
\* up, and retrieve(key) returns it only if that list is the last created.
C17_LastCreatedListWins ==
    RaceKey \notin DOMAIN runA =>
        /\ RaceKey \in DOMAIN artifacts[Root] =>
               artifacts[Root][RaceKey] = Ref(Len(heap))
        /\ \A i \in 1..MaxRacers :
               HasStored(i) =>
                   /\ \E j \in 1..Len(heap[sth[i].lst]) :
                          heap[sth[i].lst][j] = i
                   /\ (\E j \in 1..Len(Retrieve(Root, RaceKey, FALSE).items) :
                          Retrieve(Root, RaceKey, FALSE).items[j] = i)
                      <=> sth[i].lst = Len(heap)

\* C17 witness: two workers made the first multi-valued store of the key,
\* both stores returned, and retrieve(key) holds only the second value
C17_Witness ==
    /\ RaceKey \notin DOMAIN runA
    /\ HasStored(1) /\ HasStored(2)
    /\ Retrieve(Root, RaceKey, FALSE).items = <<2>>

(***************************************************************************)
(* Properties of the threaded fan-out.                                     *)
(***************************************************************************)
\* the caller of batch k of n holds all its permits: trigger_run has
\* returned, or is about to
Returned(n, k) == batch[n][k].N > 0 /\ batch[n][k].acq = batch[n][k].N

\* C18: when a threaded trigger_run returns, no worker holds a permit, and
\* from then on the results are not modified: a worker that had not passed
\* its acquire by then stays before it, never invoking its function.
C18_ResultsFinalAtReturn ==
    /\ [](\A k \in Kinds :
             Returned(Root, k) =>
                 /\ batch[Root][k].sem = 0
                 /\ \A i \in 1..Len(batch[Root][k].w) :
                        batch[Root][k].w[i] \in {"spawned", "done"})
    /\ [][\A k \in Kinds :
             Returned(Root, k) =>
                 /\ batch'[Root][k].res = batch[Root][k].res
                 /\ batch'[Root][k].w = batch[Root][k].w
                 /\ \A i \in 1..nh[Root] :
                        (k = "h" /\ hres[Root][i] = "none") =>
                            hres'[Root][i] = "none"]_vars

\* C18 witness: the batch of three handlers has returned the result of one
\* worker, the two other workers not having acquired
C18_Witness ==
    /\ pc[Root] = "done"
    /\ batch[Root].h.N = 3
    /\ Len(batch[Root].h.res) = 1
    /\ \E i \in 1..3 :
           /\ batch[Root].h.w[i] = "done"
           /\ \A j \in (1..3) \ {i} :
                  batch[Root].h.w[j] = "spawned" /\ hres[Root][j] = "none"

\* worker i of batch k of the root is at position p of trigger_spawn
WorkerAt(k, i, p) ==
    i \in 1..Len(batch[Root][k].w) /\ batch[Root][k].w[i] = p

\* C19: under fair scheduling, every spawned worker whose function
\* terminates eventually acquires, invokes its function, releases and
\* exits: none stays blocked on lock.acquire() for ever.
C19_EveryWorkerExits ==
    \A k \in Kinds, i \in 1..MaxFuncs :
        WorkerAt(k, i, "spawned") ~> WorkerAt(k, i, "done")

\* the workers of a batch that hold a permit
Holders(b) == {i \in 1..Len(b.w) : b.w[i] \in {"holding", "release"}}

\* C20: the permit count of a batch of N functions stays within 0..N: it
\* is N less the permits the caller took and those the workers hold, and
\* no lock.release() raises ValueError.
C20_PermitsWithinBounds ==
    \A n \in Nodes, k \in Kinds :
        LET b == batch[n][k]
        IN  /\ b.sem \in 0..b.N
            /\ Len(b.w) > 0 => b.sem = b.N - b.acq - Cardinality(Holders(b))
            /\ \A i \in 1..Len(b.w) : b.w[i] # "valueerror"

\* C20 witness: both workers of a batch of two have released before the
\* caller took a permit, and the count is back at 2
C20_Witness ==
    /\ batch[Root].h.N = 2
    /\ batch[Root].h.w = <<"done", "done">>
    /\ batch[Root].h.acq = 0
    /\ batch[Root].h.sem = 2


=============================================================================
